---- MODULE Spec2Model ----
(***************************************************************************)
(* Territory zone aggregation pipeline of the EMG field-ops map builders.  *)
(*                                                                         *)
(* Three builder scripts share one shape: fetch the census tracts of each  *)
(* administrative unit (county) from the TIGERweb feature service, append  *)
(* the per-unit frames to a list, concatenate them, filter by the QCT      *)
(* eligibility list, and hand the result to the map renderer.              *)
(*   "full"        build_full_territory_map.py                             *)
(*   "vipr"        build_vipr_complete_map.py                              *)
(*   "canvassing"  canvassing_map_builder.py                               *)
(*                                                                         *)
(* Abstractions.  A GEOID is the pair <<county, tract>> of its fixed-width *)
(* fields (the state prefix "51" is constant); county codes are numbers    *)
(* whose order is the order of the zero-padded strings.  A geometry is the *)
(* set of grid cells it covers.  A GeoDataFrame is the sequence of its     *)
(* rows; Python's None is the record NoneFrame.  The log is the sequence   *)
(* of printed lines that carry data; banner lines are left out.  Folium    *)
(* rendering is an external collaborator and is one step that completes.   *)
(***************************************************************************)
EXTENDS Integers, Sequences, FiniteSets, TLC

----------------------------------------------------------------------------
(* Bounds of the model *)

\* longest feature list a response carries
MaxFeatures == 2
\* longest eligibility list
MaxQct == 2

----------------------------------------------------------------------------
(* Reference data *)

\* county codes the scripts are configured with
Counties == {1, 2}

\* tract identifiers: X001 in county 1, X002 and X003 in county 2
X001 == <<1, 1>>
X002 == <<2, 1>>
X003 == <<2, 2>>
GEOIDS == {X001, X002, X003}

\* grid cells; the service territory covers cells 1 and 2
Cells == {1, 2, 3}
Inside == {1}
Straddling == {2, 3}

\* a column the response does not carry reads as NaN
NoCountyName == "nan"

Tract(geoid, name, geometry) ==
    [GEOID |-> geoid, NAME |-> name, geometry |-> geometry,
     COUNTY_NAME |-> NoCountyName]

\* the features the service can return: one record per tract, and for X002 a
\* second record with another name and outline
TractUniverse ==
    {Tract(X001, "n1", Inside), Tract(X002, "n1", Inside),
     Tract(X002, "n2", Straddling), Tract(X003, "n2", Straddling)}

FeatureLists == UNION {[1..n -> TractUniverse] : n \in 0..MaxFeatures}

QctLists == UNION {[1..n -> GEOIDS] : n \in 0..MaxQct}

Scripts == {"full", "vipr", "canvassing"}

VIPR_LMI_COUNTIES == (1 :> "Chesapeake") @@ (2 :> "Norfolk")

\* canvassing unit list, in configuration order (not sorted); only its
\* first FetchLimit entries are requested.  The source lists 17 units and
\* slices the first 5; the model keeps the shape with 3 units and a slice of 2.
DOMINION_COUNTIES_FIPS == <<2, 1, 3>>
FetchLimit == 2

----------------------------------------------------------------------------
(* Helpers *)

Range(s) == {s[k] : k \in DOMAIN s}

Min(S) == CHOOSE x \in S : \A y \in S : x <= y

RECURSIVE SortedSeq(_)
SortedSeq(S) == IF S = {} THEN <<>>
                ELSE <<Min(S)>> \o SortedSeq(S \ {Min(S)})

RECURSIVE Concat(_)
Concat(frames) == IF frames = <<>> THEN <<>>
                  ELSE Head(frames) \o Concat(Tail(frames))

NoneFrame == [isNone |-> TRUE, rows |-> <<>>]
Frame(rows) == [isNone |-> FALSE, rows |-> rows]

Line(msg, n) == [msg |-> msg, n |-> n]

----------------------------------------------------------------------------
(* The remote feature service: what one GET can come back with *)

NetError == [raises |-> TRUE, status_code |-> 0, is_json |-> FALSE,
             is_fc |-> FALSE, features |-> <<>>]
Non200 == [raises |-> FALSE, status_code |-> 500, is_json |-> FALSE,
           is_fc |-> FALSE, features |-> <<>>]
NonJson == [raises |-> FALSE, status_code |-> 200, is_json |-> FALSE,
            is_fc |-> FALSE, features |-> <<>>]
NotFeatureCollection == [raises |-> FALSE, status_code |-> 200, is_json |-> TRUE,
                         is_fc |-> FALSE, features |-> <<>>]
FeatureCollection(f) == [raises |-> FALSE, status_code |-> 200, is_json |-> TRUE,
                         is_fc |-> TRUE, features |-> f]

Responses == {NetError, Non200, NonJson, NotFeatureCollection}
             \cup {FeatureCollection(f) : f \in FeatureLists}

----------------------------------------------------------------------------
(* Boundary Source Client *)

ExceptionClasses == {"RequestException", "JSONDecodeError", "DataSourceError",
                     "NotImplementedError"}

Returned(frame) == [exc |-> "none", value |-> frame]
Raised(cls) == [exc |-> cls, value |-> NoneFrame]

\* a handler that names only the network library's exception class
CaughtByExcept_RequestsOnly(cls) == cls = "RequestException"

\* handler `except Exception as e`: every class above derives from Exception
CaughtByExcept(cls) == cls \in ExceptionClasses

\* the try body without the `if data.get('features')` test: an empty
\* feature list yields an empty frame
TryFetchTracts_EmptyFrame(resp) ==
    IF resp.raises THEN Raised("RequestException")
    ELSE IF resp.status_code = 200
         THEN IF ~resp.is_json THEN Raised("JSONDecodeError")
              ELSE IF resp.is_fc
                   THEN Returned(Frame(resp.features))
                   ELSE Returned(NoneFrame)
         ELSE Returned(NoneFrame)

\* try body of fetch_tracts_for_county: requests.get, status check,
\* resp.json(), data.get('features'), from_features; falling out of the
\* ifs reaches `return None`
TryFetchTracts(resp) ==
    IF resp.raises THEN Raised("RequestException")
    ELSE IF resp.status_code = 200
         THEN IF ~resp.is_json THEN Raised("JSONDecodeError")
              ELSE IF resp.is_fc /\ resp.features # <<>>
                   THEN Returned(Frame(resp.features))
                   ELSE Returned(NoneFrame)
         ELSE Returned(NoneFrame)

\* try body of fetch_census_tracts_for_county: gpd.read_file(response.text)
\* parses the payload itself and returns whatever rows it holds
TryReadFile(resp) ==
    IF resp.raises THEN Raised("RequestException")
    ELSE IF resp.status_code = 200
         THEN IF resp.is_json /\ resp.is_fc
              THEN Returned(Frame(resp.features))
              ELSE Raised("DataSourceError")
         ELSE Returned(NoneFrame)

\* try/except around a body: a caught exception prints one line and
\* returns None, an uncaught one propagates to the caller
Guarded(t, errLine) ==
    IF t.exc = "none" THEN [raised |-> FALSE, value |-> t.value, out |-> <<>>]
    ELSE IF CaughtByExcept(t.exc)
         THEN [raised |-> FALSE, value |-> NoneFrame, out |-> <<errLine>>]
         ELSE [raised |-> TRUE, value |-> NoneFrame, out |-> <<>>]

fetch_tracts_for_county(resp) == Guarded(TryFetchTracts(resp), Line("Error", 0))

fetch_all_tracts_for_county(resp) == Guarded(TryFetchTracts(resp), Line("Error", 0))

fetch_census_tracts_for_county(county_fips, resp) ==
    Guarded(TryReadFile(resp), Line("Error fetching tracts for", county_fips))

----------------------------------------------------------------------------
(* Pure steps of the builders' main *)

\* geoid[2:5], the county field of a GEOID
CountyOf(geoid) == geoid[1]

RECURSIVE SortedList(_)
SortedList(s) ==
    IF s = <<>> THEN <<>>
    ELSE LET m == Min(Range(s))
             p == CHOOSE k \in DOMAIN s : s[k] = m
         IN <<m>> \o SortedList(SubSeq(s, 1, p - 1) \o SubSeq(s, p + 1, Len(s)))

\* county codes in the order the eligibility list first names them: the
\* set is iterated without sorted()
county_codes_ListOrder(qcts) ==
    LET codes == [k \in DOMAIN qcts |-> CountyOf(qcts[k])]
    IN SelectSeq([k \in DOMAIN codes |->
                    IF \E j \in 1..(k - 1) : codes[j] = codes[k] THEN 0 ELSE codes[k]],
                 LAMBDA c : c # 0)

\* county codes collected in a list instead of a set: one entry per GEOID
county_codes_AsList(qcts) == SortedList([k \in DOMAIN qcts |-> CountyOf(qcts[k])])

\* county_codes = set(); add geoid[2:5] for each geoid; iterated as
\* sorted(county_codes)
county_codes(qcts) == SortedSeq({CountyOf(qcts[k]) : k \in DOMAIN qcts})

\* sorted(VIPR_LMI_COUNTIES.items()): dictionary keys in ascending order
vipr_units == SortedSeq(DOMAIN VIPR_LMI_COUNTIES)

\* the loop runs over the whole list
canvassing_units_WholeList == DOMINION_COUNTIES_FIPS

\* DOMINION_COUNTIES_FIPS[:5]
canvassing_units ==
    SubSeq(DOMINION_COUNTIES_FIPS, 1,
           IF Len(DOMINION_COUNTIES_FIPS) < FetchLimit
           THEN Len(DOMINION_COUNTIES_FIPS) ELSE FetchLimit)

\* tracts['COUNTY_NAME'] = county_name
WithCountyName(rows, name) ==
    [k \in DOMAIN rows |-> [rows[k] EXCEPT !.COUNTY_NAME = name]]

\* a failed unit discards what earlier units contributed
KeepFetched_ResetOnFailure(all, tracts) ==
    IF ~tracts.isNone /\ Len(tracts.rows) > 0
    THEN Append(all, tracts.rows) ELSE <<>>

\* if tracts is not None and len(tracts) > 0: all_tracts.append(tracts)
KeepFetched(all, tracts) ==
    IF ~tracts.isNone /\ Len(tracts.rows) > 0
    THEN Append(all, tracts.rows) ELSE all

\* if tracts is not None: all_tracts.append(tracts)
KeepNotNone(all, tracts) ==
    IF ~tracts.isNone THEN Append(all, tracts.rows) ELSE all

\* pd.concat(all_tracts, ignore_index=True): rows of the frames in list
\* order, nothing dropped
concat(frames) == Concat(frames)

\* match on the county field of the identifier only
isin_CountyPrefix(rows, qcts) ==
    SelectSeq(rows, LAMBDA r : \E k \in DOMAIN qcts :
                                   CountyOf(qcts[k]) = CountyOf(r.GEOID))

\* an empty list lets every row pass
isin_EmptyPasses(rows, qcts) ==
    IF qcts = <<>> THEN rows
    ELSE SelectSeq(rows, LAMBDA r : \E k \in DOMAIN qcts : qcts[k] = r.GEOID)

\* a join driven by the list: matching rows in list order
RECURSIVE isin_ListOrder(_, _)
isin_ListOrder(rows, qcts) ==
    IF qcts = <<>> THEN <<>>
    ELSE SelectSeq(rows, LAMBDA r : r.GEOID = Head(qcts))
         \o isin_ListOrder(SelectSeq(rows, LAMBDA r : r.GEOID # Head(qcts)),
                           Tail(qcts))

\* gdf[gdf['GEOID'].isin(qcts)]: rows whose GEOID equals a list member
isin(rows, qcts) ==
    SelectSeq(rows, LAMBDA r : \E k \in DOMAIN qcts : qcts[k] = r.GEOID)

\* what one loop iteration prints around the call: the unit, whatever the
\* fetch printed, and the builder's own line on the outcome
full_iteration_lines_Silent(c, r) == <<Line("Fetching county", c)>> \o r.out

full_iteration_lines(c, r) ==
    <<Line("Fetching county", c)>> \o r.out
    \o (IF ~r.value.isNone /\ Len(r.value.rows) > 0
        THEN <<Line("Got", Len(r.value.rows))>> ELSE <<>>)

vipr_iteration_lines(c, r) ==
    <<Line("unit", c)>> \o r.out
    \o (IF ~r.value.isNone /\ Len(r.value.rows) > 0
        THEN <<Line("tracts", Len(r.value.rows))>> ELSE <<Line("failed", 0)>>)

canvassing_iteration_lines(c, r) == <<Line("Fetching county", c)>> \o r.out

----------------------------------------------------------------------------
(* Layers of the clipping pipeline: files, reference systems, geometry *)

MaxZones == 2
MaxBoundary == 2

CRSs == {"EPSG:4326", "EPSG:3857"}
NoCRS == "none"

\* the coordinate a reference system gives to ground cell c: each system
\* numbers the same ground differently
Offset(crs) == IF crs = "EPSG:3857" THEN 10 ELSE 0

\* coordinates of a geometry re-expressed in another reference system
Transform(geometry, from, to) == {c - Offset(from) + Offset(to) : c \in geometry}

\* a GeoDataFrame read from a file: declared CRS, dtype of its `updated`
\* attribute column, whether its geometry column mixes polygons with
\* other geometry types, and its rows
Layer(crs, dtype, mixed, rows) ==
    [isNone |-> FALSE, crs |-> crs, dtype |-> dtype, mixed |-> mixed, rows |-> rows]

NoneLayer == [isNone |-> TRUE, crs |-> NoCRS, dtype |-> "object", mixed |-> FALSE,
              rows |-> <<>>]

\* one printed line of the pipeline: message, layer name, the counts in it
NamedLine(msg, name, n) == [msg |-> msg, name |-> name, n |-> n]

\* an attribute value: a pandas Timestamp, the string str() gives for a
\* value, or another Python object the reader put in an object column
\* (a datetime.time, a list array)
Timestamp(text) == [kind |-> "Timestamp", text |-> text]
Str(v) == [kind |-> "str", text |-> v.text]
PyObject(text) == [kind |-> "pyobject", text |-> text]

\* json.dumps accepts strings; it raises TypeError on a Timestamp and on
\* any object it has no encoding for
Serializable(v) == v.kind = "str"

\* what the `updated` column of a file can hold, and the dtype pandas
\* gives the column
ColumnKinds == {"datetime64", "str", "pyobject"}

DtypeOf(column) == IF column = "datetime64" THEN "datetime64" ELSE "object"

Zone(geoid, updated, geometry) ==
    [GEOID |-> geoid, updated |-> updated, geometry |-> geometry]

\* zones on the ground, with their `updated` column of the given kind:
\* one inside cell 1, one over cells 2 and 3, one over cell 4
ZoneUniverse(column) ==
    LET val(text) == CASE column = "datetime64" -> Timestamp(text)
                       [] column = "str" -> Str(Timestamp(text))
                       [] OTHER -> PyObject(text)
    IN {Zone(X001, val("t1"), {1}), Zone(X002, val("t2"), {2, 3}),
        Zone(X003, val("t1"), {4})}

ZoneRows(column) ==
    UNION {[1..n -> ZoneUniverse(column)] : n \in 0..MaxZones}

\* territory features on the ground
BoundaryGeometries == {{1, 2}, {3}}

BoundaryRows ==
    UNION {[1..n -> {[geometry |-> g] : g \in BoundaryGeometries}] : n \in 1..MaxBoundary}

\* gdf.set_crs(crs): declares the CRS, coordinates untouched
set_crs(gdf, crs) == [gdf EXCEPT !.crs = crs]

\* gdf.to_crs(crs): every geometry re-expressed in crs
to_crs(gdf, crs) ==
    [gdf EXCEPT !.crs = crs,
                !.rows = [k \in DOMAIN gdf.rows |->
                            [gdf.rows[k] EXCEPT
                               !.geometry = Transform(@, gdf.crs, crs)]]]

\* what a file on disk holds: coordinates in the system `frame`, with that
\* system declared or with no CRS member at all
Stored(dtype, mixed, rows, frame, declared) ==
    set_crs(to_crs(Layer("EPSG:4326", dtype, mixed, rows), frame), declared)

Missing == [state |-> "missing", layer |-> NoneLayer]
Unreadable == [state |-> "unreadable", layer |-> NoneLayer]
Readable(layer) == [state |-> "ok", layer |-> layer]

ZoneLayers ==
    UNION {UNION {{Stored(DtypeOf(column), mixed, rows, frame, declared) :
                     mixed \in (IF Len(rows) >= 2 THEN BOOLEAN ELSE {FALSE}),
                     declared \in {frame, NoCRS}} :
                  rows \in ZoneRows(column), frame \in CRSs} :
           column \in ColumnKinds}

BoundaryLayers ==
    UNION {{Stored("object", FALSE, rows, frame, declared) :
              declared \in {frame, NoCRS}} :
           rows \in BoundaryRows, frame \in CRSs}

ZoneFiles == {Missing, Unreadable} \cup {Readable(l) : l \in ZoneLayers}

UtilityFiles == {Missing, Unreadable} \cup {Readable(l) : l \in BoundaryLayers}

\* the opportunity-zone file and the street file: absent, or one fixed layer
OzFiles ==
    {Missing,
     Readable(Layer("EPSG:4326", "object", FALSE,
                    <<Zone(X002, Str(Timestamp("t2")), {2, 3})>>))}

StreetFiles ==
    {Missing,
     Readable(Layer("EPSG:4326", "datetime64", FALSE,
                    <<Zone(X001, Timestamp("t1"), {1})>>))}

----------------------------------------------------------------------------
(* CRS Normalizer *)

\* a layer with no CRS is declared to be in the target CRS, and so is
\* never reprojected
ensure_same_crs_DeclaresTarget(gdf, target_crs, name) ==
    IF gdf.isNone THEN [value |-> NoneLayer, out |-> <<>>]
    ELSE LET declared == IF gdf.crs = NoCRS THEN set_crs(gdf, target_crs) ELSE gdf
         IN [value |-> IF declared.crs # target_crs
                       THEN to_crs(declared, target_crs) ELSE declared,
             out |-> (IF gdf.crs = NoCRS
                      THEN <<NamedLine("WARNING: no CRS, assuming EPSG:4326", name, <<>>)>>
                      ELSE <<>>)
                     \o (IF declared.crs # target_crs
                         THEN <<NamedLine("Reprojecting", name, <<>>)>> ELSE <<>>)]

\* always declares EPSG:4326 before comparing, whatever the layer declares
ensure_same_crs_AssumeAlways(gdf, target_crs, name) ==
    IF gdf.isNone THEN [value |-> NoneLayer, out |-> <<>>]
    ELSE LET declared == set_crs(gdf, "EPSG:4326")
         IN [value |-> IF declared.crs # target_crs
                       THEN to_crs(declared, target_crs) ELSE declared,
             out |-> (IF gdf.crs = NoCRS
                      THEN <<NamedLine("WARNING: no CRS, assuming EPSG:4326", name, <<>>)>>
                      ELSE <<>>)
                     \o (IF declared.crs # target_crs
                         THEN <<NamedLine("Reprojecting", name, <<>>)>> ELSE <<>>)]

\* ensure_same_crs: None stays None; a layer with no CRS is declared
\* EPSG:4326; a layer whose CRS is not the target is reprojected
ensure_same_crs(gdf, target_crs, name) ==
    IF gdf.isNone THEN [value |-> NoneLayer, out |-> <<>>]
    ELSE LET declared == IF gdf.crs = NoCRS THEN set_crs(gdf, "EPSG:4326") ELSE gdf
         IN [value |-> IF declared.crs # target_crs
                       THEN to_crs(declared, target_crs) ELSE declared,
             out |-> (IF gdf.crs = NoCRS
                      THEN <<NamedLine("WARNING: no CRS, assuming EPSG:4326", name, <<>>)>>
                      ELSE <<>>)
                     \o (IF declared.crs # target_crs
                         THEN <<NamedLine("Reprojecting", name, <<>>)>> ELSE <<>>)]

\* gdf[col].astype(str) on the `updated` column
astype_str(gdf) ==
    [gdf EXCEPT !.dtype = "object",
                !.rows = [k \in DOMAIN gdf.rows |->
                            [gdf.rows[k] EXCEPT !.updated = Str(@)]]]

\* pd.api.types.is_datetime64_any_dtype
is_datetime64_any_dtype(dtype) == dtype = "datetime64"

\* converts in place: no gdf.copy() before the loop
prepare_for_json_InPlace(gdf) ==
    IF gdf.isNone THEN [self |-> gdf, ret |-> NoneLayer]
    ELSE LET converted == IF is_datetime64_any_dtype(gdf.dtype)
                          THEN astype_str(gdf) ELSE gdf
         IN [self |-> converted, ret |-> converted]

\* prepare_for_json: works on a copy; the loop skips geometry and turns a
\* datetime column into strings. self is the argument object after the
\* call, ret the returned layer
prepare_for_json(gdf) ==
    IF gdf.isNone THEN [self |-> gdf, ret |-> NoneLayer]
    ELSE LET copy == gdf
         IN [self |-> gdf,
             ret |-> IF is_datetime64_any_dtype(copy.dtype)
                     THEN astype_str(copy) ELSE copy]

\* load_geojson: a missing file and a read error both give None, each
\* with its own line
load_geojson(file, name) ==
    CASE file.state = "missing" ->
           [value |-> NoneLayer, out |-> <<NamedLine("WARNING: file not found", name, <<>>)>>]
      [] file.state = "unreadable" ->
           [value |-> NoneLayer, out |-> <<NamedLine("ERROR loading", name, <<>>)>>]
      [] OTHER ->
           [value |-> file.layer,
            out |-> <<NamedLine("Loaded", name, <<Len(file.layer.rows)>>)>>]

----------------------------------------------------------------------------
(* Boundary Clipper *)

\* two coordinates next to each other share an edge
Adjacent(c, d) == c - d = 1 \/ d - c = 1

\* spatial-index query with predicate "intersects": true for geometries
\* that share area and for geometries that only touch along an edge
Intersects(g, b) ==
    \/ g \cap b # {}
    \/ \E c \in g, d \in b : Adjacent(c, d)

\* the piece takes the boundary feature's shape
intersection_TakesBoundary(g, b) == b

\* left.intersection(right): the area both geometries cover; geometries
\* that only touch leave a line, which has no area
intersection(g, b) == g \cap b

\* every piece is kept, whatever its geometry type
keep_geom_type_Off(piece) == TRUE

\* keep_geom_type (the default): only polygon results stay, so a piece
\* without area is dropped
keep_geom_type(piece) == piece.geometry # {}

\* how='intersection': one piece per (row, boundary feature) pair the
\* index query returns, in row order then feature order, with the row's
\* attributes and the intersection as geometry
RECURSIVE overlay_intersection(_, _)
overlay_intersection(rows, boundary) ==
    IF rows = <<>> THEN <<>>
    ELSE LET row == Head(rows)
             candidates == SelectSeq(boundary, LAMBDA b : Intersects(row.geometry, b))
             pieces == [k \in DOMAIN candidates |->
                          [row EXCEPT !.geometry = intersection(row.geometry, candidates[k])]]
         IN SelectSeq(pieces, keep_geom_type)
            \o overlay_intersection(Tail(rows), boundary)

\* the overlay is given gdf[['geometry']]: the pieces carry no attribute
\* of the tract they come from
overlay_GeometryOnly(gdf, boundary) ==
    IF gdf.mixed THEN [exc |-> "NotImplementedError", value |-> NoneLayer]
    ELSE LET pieces == overlay_intersection(gdf.rows,
                           [k \in DOMAIN boundary.rows |-> boundary.rows[k].geometry])
         IN [exc |-> "none",
             value |-> [gdf EXCEPT !.rows =
                           [k \in DOMAIN pieces |->
                              [pieces[k] EXCEPT !.GEOID = <<0, 0>>]]]]

\* gpd.overlay(gdf, boundary[['geometry']], how='intersection'): raises
\* NotImplementedError on a frame of mixed geometry types; otherwise the
\* pieces, in the frame's CRS and with the frame's columns. A CRS mismatch
\* between the two frames only draws a library warning
overlay(gdf, boundary) ==
    IF gdf.mixed THEN [exc |-> "NotImplementedError", value |-> NoneLayer]
    ELSE [exc |-> "none",
          value |-> [gdf EXCEPT !.rows =
                        overlay_intersection(gdf.rows,
                            [k \in DOMAIN boundary.rows |-> boundary.rows[k].geometry])]]

\* an empty overlay is handed back as None
clip_to_boundary_NoneWhenEmpty(gdf, boundary, name) ==
    IF gdf.isNone \/ boundary.isNone \/ overlay(gdf, boundary).exc # "none"
       \/ overlay(gdf, boundary).value.rows = <<>>
    THEN [raised |-> FALSE, value |-> NoneLayer, out |-> <<>>]
    ELSE [raised |-> FALSE, value |-> overlay(gdf, boundary).value,
          out |-> <<NamedLine("Clipped", name,
                              <<Len(gdf.rows), Len(overlay(gdf, boundary).value.rows)>>)>>]

\* clip_to_boundary: None in, None out; otherwise the overlay inside
\* try/except, which prints and returns None on any exception
clip_to_boundary(gdf, boundary, name) ==
    IF gdf.isNone \/ boundary.isNone
    THEN [raised |-> FALSE, value |-> NoneLayer, out |-> <<>>]
    ELSE LET t == overlay(gdf, boundary)
         IN IF t.exc = "none"
            THEN [raised |-> FALSE, value |-> t.value,
                  out |-> <<NamedLine("Clipped", name,
                                      <<Len(gdf.rows), Len(t.value.rows)>>)>>]
            ELSE IF CaughtByExcept(t.exc)
                 THEN [raised |-> FALSE, value |-> NoneLayer,
                       out |-> <<NamedLine("ERROR clipping", name, <<>>)>>]
                 ELSE [raised |-> TRUE, value |-> NoneLayer, out |-> <<>>]

\* a builder's frame as a layer: from_features(..., crs="EPSG:4326")
AsLayer(frame) ==
    IF frame.isNone THEN NoneLayer
    ELSE Layer("EPSG:4326", "object", FALSE, frame.rows)

\* the service territory of the end-to-end scenario: one feature over cells 1, 2
ScenarioBoundary == Layer("EPSG:4326", "object", FALSE, <<[geometry |-> {1, 2}]>>)

----------------------------------------------------------------------------
(* State *)

VARIABLES
    script,          \* which builder runs
    qct_geoids,      \* the eligibility list
    units,           \* units the fetch loop iterates over, in order
    i,               \* position of the fetch loop in units
    calls,           \* outbound requests made: unit, what came back, what
                     \* the fetch gave its caller
    all_tracts,      \* list of per-unit frames
    all_tracts_gdf,  \* the concatenated frame (all_zones in the VIPR builder)
    lmi_zones,       \* the filtered frame
    output,          \* what was handed to the renderer and saved
    log,             \* printed lines
    pc,              \* position of main
    files,           \* the four input files of the clipping pipeline
    utility_gdf,     \* the clipping pipeline's layers, as main holds them
    oz_gdf,
    qct_gdf,
    streets_gdf,
    oz_clipped,
    qct_clipped,
    map_layers,      \* the layers as create_map prepared them for the map
    all_zones,       \* regional split: the zone file as main loaded it
    region,          \* regional split: position of the loop in REGIONS
    regional_maps    \* regional split: region key -> zones of the map saved for it

clipvars == <<files, utility_gdf, oz_gdf, qct_gdf, streets_gdf, oz_clipped,
              qct_clipped, map_layers>>

regionvars == <<all_zones, region, regional_maps>>

vars == <<script, qct_geoids, units, i, calls, all_tracts, all_tracts_gdf,
          lmi_zones, output, log, pc, clipvars, regionvars>>

NoMap == [utility |-> NoneLayer, oz |-> NoneLayer, qct |-> NoneLayer,
          streets |-> NoneLayer]

\* nothing loaded, nothing clipped, nothing prepared
NoLayers ==
    /\ utility_gdf = NoneLayer
    /\ oz_gdf = NoneLayer
    /\ qct_gdf = NoneLayer
    /\ streets_gdf = NoneLayer
    /\ oz_clipped = NoneLayer
    /\ qct_clipped = NoneLayer
    /\ map_layers = NoMap

NoOutput == [saved |-> FALSE, zones |-> NoneFrame]

\* keys of REGIONS, in the order the dictionary lists them
REGION_KEYS == <<"hampton_roads", "richmond", "petersburg_southside",
                 "lynchburg_central", "northern_va", "northern_neck">>

\* the regional builder has loaded nothing and saved no map
NoRegions ==
    /\ all_zones = NoneFrame
    /\ region = 1
    /\ regional_maps = [key \in Range(REGION_KEYS) |-> <<>>]

Init ==
    /\ script \in Scripts
    /\ qct_geoids \in (IF script = "vipr" THEN {<<>>} ELSE QctLists)
    /\ units = <<>>
    /\ i = 1
    /\ calls = <<>>
    /\ all_tracts = <<>>
    /\ all_tracts_gdf = NoneFrame
    /\ lmi_zones = NoneFrame
    /\ output = NoOutput
    /\ log = <<>>
    /\ pc = "start"
    /\ files = [utility |-> Missing, oz |-> Missing, qct |-> Missing,
                streets |-> Missing]
    /\ NoLayers
    /\ NoRegions

\* main up to the fetch loop: the unit list is fixed and the counts printed
Start ==
    /\ pc = "start"
    /\ units' = CASE script = "full" -> county_codes(qct_geoids)
                  [] script = "vipr" -> vipr_units
                  [] OTHER -> canvassing_units
    /\ log' = CASE script = "full" ->
                     <<Line("Target QCT zones", Len(qct_geoids)),
                       Line("Counties to fetch", Len(county_codes(qct_geoids)))>>
                [] script = "vipr" ->
                     <<Line("Fetching ALL census tracts for counties",
                            Cardinality(DOMAIN VIPR_LMI_COUNTIES))>>
                [] OTHER -> <<>>
    /\ pc' = "fetch"
    /\ UNCHANGED <<clipvars, regionvars>>
    /\ UNCHANGED <<script, qct_geoids, i, calls, all_tracts, all_tracts_gdf,
                   lmi_zones, output>>

\* one iteration of the fetch loop: one blocking call, answered by one of
\* `answers`, then the append
FetchFrom(answers) ==
    /\ pc = "fetch"
    /\ i <= Len(units)
    /\ \E resp \in answers :
         LET c == units[i]
             r == CASE script = "full" -> fetch_tracts_for_county(resp)
                    [] script = "vipr" -> fetch_all_tracts_for_county(resp)
                    [] OTHER -> fetch_census_tracts_for_county(c, resp)
             named == IF r.value.isNone THEN r.value
                      ELSE Frame(WithCountyName(r.value.rows, VIPR_LMI_COUNTIES[c]))
         IN /\ calls' = Append(calls, [unit |-> c, resp |-> resp,
                                       raised |-> r.raised, returned |-> r.value])
            /\ IF r.raised
               THEN /\ pc' = "crashed"
                    /\ log' = log \o <<Line(IF script = "vipr" THEN "unit"
                                            ELSE "Fetching county", c)>>
                    /\ UNCHANGED <<all_tracts, i>>
               ELSE /\ all_tracts' =
                         CASE script = "full" -> KeepFetched(all_tracts, r.value)
                           [] script = "vipr" -> KeepFetched(all_tracts, named)
                           [] OTHER -> KeepNotNone(all_tracts, r.value)
                    /\ log' = log \o
                         CASE script = "full" -> full_iteration_lines(c, r)
                           [] script = "vipr" -> vipr_iteration_lines(c, r)
                           [] OTHER -> canvassing_iteration_lines(c, r)
                    /\ i' = i + 1
                    /\ pc' = "fetch"
    /\ UNCHANGED <<clipvars, regionvars>>
    /\ UNCHANGED <<script, qct_geoids, units, all_tracts_gdf, lmi_zones, output>>

\* the service may answer a query with any of the responses
FetchUnit == FetchFrom(Responses)

\* the merge starts as soon as one unit has been fetched
Combine_Streaming ==
    /\ pc = "fetch"
    /\ i > 1
    /\ IF all_tracts = <<>>
       THEN /\ log' = log \o <<Line(CASE script = "full" -> "ERROR: Could not fetch any tract data"
                                      [] script = "vipr" -> "ERROR: No tract data fetched"
                                      [] OTHER -> "WARNING: Could not fetch tract data from Census API", 0)>>
            /\ pc' = IF script = "canvassing" THEN "render" ELSE "done"
            /\ UNCHANGED all_tracts_gdf
       ELSE /\ all_tracts_gdf' = Frame(concat(all_tracts))
            /\ log' = log \o <<Line(IF script = "vipr" THEN "TOTAL LMI ZONES"
                                    ELSE "Total tracts fetched",
                                    Len(concat(all_tracts)))>>
            /\ pc' = IF script = "vipr" THEN "render" ELSE "filter"
    /\ UNCHANGED <<clipvars, regionvars>>
    /\ UNCHANGED <<script, qct_geoids, units, i, calls, all_tracts, lmi_zones, output>>

\* after the loop: the early return on an empty list, else the concatenation
Combine ==
    /\ pc = "fetch"
    /\ i > Len(units)
    /\ IF all_tracts = <<>>
       THEN /\ log' = log \o <<Line(CASE script = "full" -> "ERROR: Could not fetch any tract data"
                                      [] script = "vipr" -> "ERROR: No tract data fetched"
                                      [] OTHER -> "WARNING: Could not fetch tract data from Census API", 0)>>
            /\ pc' = IF script = "canvassing" THEN "render" ELSE "done"
            /\ UNCHANGED all_tracts_gdf
       ELSE /\ all_tracts_gdf' = Frame(concat(all_tracts))
            /\ log' = log \o <<Line(IF script = "vipr" THEN "TOTAL LMI ZONES"
                                    ELSE "Total tracts fetched",
                                    Len(concat(all_tracts)))>>
            /\ pc' = IF script = "vipr" THEN "render" ELSE "filter"
    /\ UNCHANGED <<clipvars, regionvars>>
    /\ UNCHANGED <<script, qct_geoids, units, i, calls, all_tracts, lmi_zones, output>>

\* a concatenation of frames that all came from empty feature collections
\* may carry no GEOID column; indexing it then raises KeyError
MayLackGeoidColumn == script = "canvassing" /\ all_tracts_gdf.rows = <<>>

\* the eligibility filter
Filter ==
    /\ pc = "filter"
    /\ \E keyError \in (IF MayLackGeoidColumn THEN BOOLEAN ELSE {FALSE}) :
         IF keyError
         THEN /\ pc' = "crashed"
              /\ UNCHANGED <<lmi_zones, log>>
         ELSE /\ lmi_zones' = Frame(isin(all_tracts_gdf.rows, qct_geoids))
              /\ log' = log \o <<Line(IF script = "full" THEN "LMI qualifying zones"
                                      ELSE "LMI qualifying tracts",
                                      Len(isin(all_tracts_gdf.rows, qct_geoids)))>>
              /\ pc' = "render"
    /\ UNCHANGED <<clipvars, regionvars>>
    /\ UNCHANGED <<script, qct_geoids, units, i, calls, all_tracts, all_tracts_gdf, output>>

\* the dataset given to the renderer: all_zones in the VIPR builder,
\* lmi_zones in the other two
Final == IF script = "vipr" THEN all_tracts_gdf ELSE lmi_zones

\* GeoJSON side file, create_map, m.save and the summary
Render ==
    /\ pc = "render"
    /\ output' = [saved |-> TRUE, zones |-> Final]
    /\ log' = log
              \o (IF script = "vipr" \/ (script = "full" /\ Len(Final.rows) > 0)
                  THEN <<Line("Saved: zones geojson", Len(Final.rows))>> ELSE <<>>)
              \o <<Line("Saved: OUTPUT_FILE", 0), Line("LMI Zones", Len(Final.rows))>>
    /\ pc' = "done"
    /\ UNCHANGED <<clipvars, regionvars>>
    /\ UNCHANGED <<script, qct_geoids, units, i, calls, all_tracts, all_tracts_gdf, lmi_zones>>

Next == Start \/ FetchUnit \/ Combine \/ Filter \/ Render

Spec == Init /\ [][Next]_vars

----------------------------------------------------------------------------
(* The canvassing builder against a service that answers for the county asked *)

\* a tract of the third configured unit, which lies beyond the slice
X004 == <<3, 1>>

\* where=STATE='51' AND COUNTY='<county_fips[-3:]>': the tracts the service
\* holds for one county
TractsOf(county_fips) ==
    {t \in TractUniverse \cup {Tract(X004, "n1", Inside)} :
        CountyOf(t.GEOID) = county_fips}

\* what requests.get can bring back for the query of one county
AnswersFor(county_fips) ==
    {NetError, Non200, NonJson, NotFeatureCollection}
    \cup {FeatureCollection(f) :
             f \in UNION {[1..n -> TractsOf(county_fips)] : n \in 0..MaxFeatures}}

\* fetch_virginia_qct_list(): a list that may name tracts of any configured unit
CanvassingQctLists == UNION {[1..n -> GEOIDS \cup {X004}] : n \in 0..MaxQct}

InitCanvassing ==
    /\ script = "canvassing"
    /\ qct_geoids \in CanvassingQctLists
    /\ units = <<>>
    /\ i = 1
    /\ calls = <<>>
    /\ all_tracts = <<>>
    /\ all_tracts_gdf = NoneFrame
    /\ lmi_zones = NoneFrame
    /\ output = NoOutput
    /\ log = <<>>
    /\ pc = "start"
    /\ files = [utility |-> Missing, oz |-> Missing, qct |-> Missing,
                streets |-> Missing]
    /\ NoLayers
    /\ NoRegions

\* the loop body with the query of fetch_census_tracts_for_county answered
\* for the county it names
FetchCounty == FetchFrom(AnswersFor(units[i]))

NextCanvassing == Start \/ FetchCounty \/ Combine \/ Filter \/ Render

SpecCanvassing == InitCanvassing /\ [][NextCanvassing]_vars

----------------------------------------------------------------------------
(* The clipping pipeline: main of the market map generator *)

buildervars == <<script, qct_geoids, units, i, calls, all_tracts,
                 all_tracts_gdf, lmi_zones>>

InitClip ==
    /\ script = "filter_zones"
    /\ qct_geoids = <<>>
    /\ units = <<>>
    /\ i = 1
    /\ calls = <<>>
    /\ all_tracts = <<>>
    /\ all_tracts_gdf = NoneFrame
    /\ lmi_zones = NoneFrame
    /\ output = [saved |-> FALSE, zones |-> NoneLayer]
    /\ log = <<>>
    /\ pc = "load"
    /\ files \in [utility : UtilityFiles, oz : OzFiles, qct : ZoneFiles,
                  streets : StreetFiles]
    /\ NoLayers
    /\ NoRegions

\* Step 1: the four files are loaded; without the utility boundary main
\* prints its error and returns
LoadLayers ==
    /\ pc = "load"
    /\ LET u == load_geojson(files.utility, "Utility Boundary")
           o == load_geojson(files.oz, "Opportunity Zones")
           q == load_geojson(files.qct, "QCT Zones")
           s == load_geojson(files.streets, "Street Data")
       IN /\ utility_gdf' = u.value
          /\ oz_gdf' = o.value
          /\ qct_gdf' = q.value
          /\ streets_gdf' = s.value
          /\ log' = log \o u.out \o o.out \o q.out \o s.out
                    \o (IF u.value.isNone
                        THEN <<NamedLine("ERROR: Utility boundary is required but not found",
                                         "Utility Boundary", <<>>)>>
                        ELSE <<>>)
          /\ pc' = IF u.value.isNone THEN "done" ELSE "align"
    /\ UNCHANGED <<regionvars, buildervars, files, output, oz_clipped, qct_clipped, map_layers>>

\* utility_gdf.crs if utility_gdf.crs else "EPSG:4326"
target_crs(utility) == IF utility.crs # NoCRS THEN utility.crs ELSE "EPSG:4326"

\* Step 2: the three overlay layers are brought to the boundary's CRS
AlignCRS ==
    /\ pc = "align"
    /\ LET o == ensure_same_crs(oz_gdf, target_crs(utility_gdf), "Opportunity Zones")
           q == ensure_same_crs(qct_gdf, target_crs(utility_gdf), "QCT Zones")
           s == ensure_same_crs(streets_gdf, target_crs(utility_gdf), "Streets")
       IN /\ oz_gdf' = o.value
          /\ qct_gdf' = q.value
          /\ streets_gdf' = s.value
          /\ log' = log \o o.out \o q.out \o s.out
    /\ pc' = "clip"
    /\ UNCHANGED <<regionvars, buildervars, files, output, utility_gdf, oz_clipped, qct_clipped,
                   map_layers>>

\* Step 3: both zone layers are clipped to the utility boundary
ClipZones ==
    /\ pc = "clip"
    /\ LET o == clip_to_boundary(oz_gdf, utility_gdf, "Opportunity Zones")
           q == clip_to_boundary(qct_gdf, utility_gdf, "QCT Zones")
       IN /\ oz_clipped' = o.value
          /\ qct_clipped' = IF o.raised THEN qct_clipped ELSE q.value
          /\ log' = log \o o.out \o (IF o.raised THEN <<>> ELSE q.out)
          /\ pc' = IF o.raised \/ q.raised THEN "crashed" ELSE "map"
    /\ UNCHANGED <<regionvars, buildervars, files, output, utility_gdf, oz_gdf, qct_gdf,
                   streets_gdf, map_layers>>

\* gdf.to_json(): json.dumps over every attribute value
Serializes(gdf) == \A k \in DOMAIN gdf.rows : Serializable(gdf.rows[k].updated)

\* `if gdf is not None and len(gdf) > 0`: the layer goes on the map
Shown(gdf) == ~gdf.isNone /\ Len(gdf.rows) > 0

\* Step 4, create_map: each layer is prepared, then added to the map when
\* it is there and (except the territory) has features; to_json raises
\* TypeError on a value json.dumps rejects, which nothing catches
CreateMap ==
    /\ pc = "map"
    /\ LET u == prepare_for_json(utility_gdf)
           o == prepare_for_json(oz_clipped)
           q == prepare_for_json(qct_clipped)
           s == prepare_for_json(streets_gdf)
           raises == \E l \in {o.ret, q.ret, s.ret} : Shown(l) /\ ~Serializes(l)
       IN /\ utility_gdf' = u.self
          /\ oz_clipped' = o.self
          /\ qct_clipped' = q.self
          /\ streets_gdf' = s.self
          /\ map_layers' = [utility |-> u.ret, oz |-> o.ret, qct |-> q.ret,
                             streets |-> s.ret]
          /\ log' = IF raises THEN log
                    ELSE log \o <<NamedLine("Added layer", "Utility Territory", <<>>)>>
                         \o (IF Shown(o.ret)
                             THEN <<NamedLine("Added layer", "Opportunity Zones", <<>>)>>
                             ELSE <<>>)
                         \o (IF Shown(q.ret)
                             THEN <<NamedLine("Added layer", "QCT", <<>>)>> ELSE <<>>)
                         \o (IF Shown(s.ret)
                             THEN <<NamedLine("Added layer", "Streets", <<>>)>> ELSE <<>>)
          /\ pc' = IF raises THEN "crashed" ELSE "save"
    /\ UNCHANGED <<regionvars, buildervars, files, output, oz_gdf, qct_gdf>>

\* len(gdf) if gdf is not None else 0
CountOrZero(gdf) == IF gdf.isNone THEN 0 ELSE Len(gdf.rows)

\* Step 5 and the summary
SaveMap ==
    /\ pc = "save"
    /\ output' = [saved |-> TRUE,
                  zones |-> IF Shown(map_layers.qct) THEN map_layers.qct ELSE NoneLayer]
    /\ log' = log \o <<NamedLine("SUCCESS: Map saved", "OUTPUT_FILE", <<>>),
                       NamedLine("Utility Territory: Yes", "Utility Territory", <<>>),
                       NamedLine("features clipped", "Opportunity Zones",
                                 <<CountOrZero(oz_clipped)>>),
                       NamedLine("features clipped", "QCT Zones",
                                 <<CountOrZero(qct_clipped)>>),
                       NamedLine("features", "Streets", <<CountOrZero(streets_gdf)>>)>>
    /\ pc' = "done"
    /\ UNCHANGED <<regionvars, buildervars, clipvars>>

NextClip == LoadLayers \/ AlignCRS \/ ClipZones \/ CreateMap \/ SaveMap

SpecClip == InitClip /\ [][NextClip]_vars

----------------------------------------------------------------------------
(* The regional split: main of the regional maps builder *)

\* keys of the VIPR builder's county table as the source lists them.  The
\* codes are three-character strings, "093" and the like, written here as
\* numbers: every code of both tables has three characters, so equality and
\* order of the strings are those of the numbers.  The builder model above
\* runs on a two-county cut of this table.
VIPR_COUNTY_CODES ==
    {550, 710, 810, 740, 650, 700, 800, 93, 175, 95, 199, 73, 115, 760, 87,
     41, 85, 36, 127, 75, 145, 570, 670, 730, 149, 53, 25, 81, 595, 183,
     181, 117, 111, 135, 7, 147, 37, 83, 143, 590, 680, 31, 9, 11, 19, 515,
     29, 49, 65, 109, 137, 3, 540, 79, 113, 157, 47, 61, 103, 133, 159,
     193, 57, 97, 99, 101, 119, 33, 59, 600, 610, 13, 510, 153, 683, 685,
     107, 177, 630, 179}

\* REGIONS[key]['counties'], one list per region
HAMPTON_ROADS_COUNTIES ==
    <<550, 710, 810, 740, 650, 700, 800, 93, 175, 95, 199, 73, 115>>

RICHMOND_COUNTIES ==
    <<760, 87, 41, 85, 36, 127, 75, 145, 570, 670>>

PETERSBURG_SOUTHSIDE_COUNTIES ==
    <<730, 149, 53, 25, 81, 595, 183, 181, 117, 111, 135, 7, 147, 37, 83,
      143, 590>>

LYNCHBURG_CENTRAL_COUNTIES ==
    <<680, 31, 9, 11, 19, 515, 29, 49, 65, 109, 137, 3, 540, 79, 113, 157,
      47, 61>>

NORTHERN_VA_COUNTIES ==
    <<59, 600, 610, 13, 510, 153, 683, 685, 107, 177, 630, 179, 33, 99>>

NORTHERN_NECK_COUNTIES ==
    <<103, 133, 159, 193, 57, 97, 101, 119>>

\* a region's list lacks one of its counties
REGIONS_DroppedCounty ==
    [hampton_roads |-> [name |-> "Hampton Roads", counties |-> HAMPTON_ROADS_COUNTIES],
     richmond |-> [name |-> "Richmond Metro", counties |-> Tail(RICHMOND_COUNTIES)],
     petersburg_southside |-> [name |-> "Petersburg & Southside",
                               counties |-> PETERSBURG_SOUTHSIDE_COUNTIES],
     lynchburg_central |-> [name |-> "Lynchburg & Central VA",
                            counties |-> LYNCHBURG_CENTRAL_COUNTIES],
     northern_va |-> [name |-> "Northern Virginia", counties |-> NORTHERN_VA_COUNTIES],
     northern_neck |-> [name |-> "Northern Neck & Middle Peninsula",
                        counties |-> NORTHERN_NECK_COUNTIES]]

REGIONS ==
    [hampton_roads |-> [name |-> "Hampton Roads", counties |-> HAMPTON_ROADS_COUNTIES],
     richmond |-> [name |-> "Richmond Metro", counties |-> RICHMOND_COUNTIES],
     petersburg_southside |-> [name |-> "Petersburg & Southside",
                               counties |-> PETERSBURG_SOUTHSIDE_COUNTIES],
     lynchburg_central |-> [name |-> "Lynchburg & Central VA",
                            counties |-> LYNCHBURG_CENTRAL_COUNTIES],
     northern_va |-> [name |-> "Northern Virginia", counties |-> NORTHERN_VA_COUNTIES],
     northern_neck |-> [name |-> "Northern Neck & Middle Peninsula",
                        counties |-> NORTHERN_NECK_COUNTIES]]

\* a zone of the complete file: the service's COUNTY attribute is the
\* county the query named, the tract number tells the zones of a file apart
CountyZone(county, n) == [GEOID |-> <<county, n>>, COUNTY |-> county]

\* what the VIPR builder can have written: zones of counties of its table,
\* in the ascending county order of its loop
WrittenZones ==
    {[k \in DOMAIN w |-> CountyZone(w[k], k)] :
        w \in {v \in UNION {[1..n -> VIPR_COUNTY_CODES] : n \in 0..MaxZones} :
                  \A a, b \in DOMAIN v : a < b => v[a] <= v[b]}}

\* the state the regional builder starts in: vipr_lmi_zones_complete.geojson
\* as the VIPR builder left it, or no file when that builder stopped early
InitRegional ==
    /\ script = "regional"
    /\ qct_geoids = <<>>
    /\ units = <<>>
    /\ i = 1
    /\ calls = <<>>
    /\ all_tracts = <<>>
    /\ all_tracts_gdf = NoneFrame
    /\ lmi_zones = NoneFrame
    /\ output \in {NoOutput} \cup {[saved |-> TRUE, zones |-> Frame(z)] : z \in WrittenZones}
    /\ log = <<>>
    /\ pc = "load"
    /\ files = [utility |-> Missing, oz |-> Missing, qct |-> Missing,
                streets |-> Missing]
    /\ NoLayers
    /\ NoRegions

\* all_zones = gpd.read_file(INPUT_FILE): a missing file raises
LoadZones ==
    /\ pc = "load"
    /\ IF output.saved
       THEN /\ all_zones' = output.zones
            /\ log' = log \o <<Line("Loaded total zones", Len(output.zones.rows))>>
            /\ pc' = "regions"
       ELSE /\ pc' = "crashed"
            /\ UNCHANGED <<all_zones, log>>
    /\ UNCHANGED <<buildervars, clipvars, output, region, regional_maps>>

\* all_zones[all_zones['COUNTY'].isin(region_info['counties'])]
RegionalZones(rows, counties) ==
    SelectSeq(rows, LAMBDA z : z.COUNTY \in Range(counties))

\* one iteration of the loop over REGIONS.items(): filter, skip an empty
\* region, else build the map and save it
BuildRegion ==
    /\ pc = "regions"
    /\ region <= Len(REGION_KEYS)
    /\ LET region_key == REGION_KEYS[region]
           regional_zones == RegionalZones(all_zones.rows, REGIONS[region_key].counties)
       IN IF Len(regional_zones) = 0
          THEN /\ log' = log \o <<Line("Zones", 0), Line("Skipping - no zones", 0)>>
               /\ UNCHANGED regional_maps
          ELSE /\ regional_maps' = [regional_maps EXCEPT ![region_key] = regional_zones]
               /\ log' = log \o <<Line("Zones", Len(regional_zones)),
                                   Line("Saved: regional map", region)>>
    /\ region' = region + 1
    /\ UNCHANGED <<buildervars, clipvars, output, all_zones, pc>>

\* after the loop: the index page and the closing lines
WriteIndex ==
    /\ pc = "regions"
    /\ region > Len(REGION_KEYS)
    /\ log' = log \o <<Line("Saved: regional_maps/index.html", 0)>>
    /\ pc' = "done"
    /\ UNCHANGED <<buildervars, clipvars, output, regionvars>>

NextRegional == LoadZones \/ BuildRegion \/ WriteIndex

SpecRegional == InitRegional /\ [][NextRegional]_vars

----------------------------------------------------------------------------
(* Observations used by the properties *)

\* the service answered with a feature collection holding at least one tract
Succeeded(call) ==
    /\ ~call.resp.raises
    /\ call.resp.status_code = 200
    /\ call.resp.is_json
    /\ call.resp.is_fc
    /\ call.resp.features # <<>>

\* no response lists the same GEOID twice
ResponsesWellFormed ==
    \A k \in DOMAIN calls :
        \A a, b \in DOMAIN calls[k].resp.features :
            calls[k].resp.features[a].GEOID = calls[k].resp.features[b].GEOID => a = b

Aggregated == pc \in {"filter", "render", "done"} /\ ~all_tracts_gdf.isNone

\* the tracts that reached the merge, in the order they were fetched
FetchedStream == Concat(all_tracts)

FirstIndex(rows, geoid) ==
    CHOOSE a \in DOMAIN rows :
        /\ rows[a].GEOID = geoid
        /\ \A b \in DOMAIN rows : rows[b].GEOID = geoid => a <= b

----------------------------------------------------------------------------
(* Aggregator *)

\* C1: in every aggregated dataset each GEOID appears exactly once, whatever
\* the units returned (each response listing a tract at most once), also
\* when two units return a tract with the same GEOID.
C1_UniqueGeoids ==
    (Aggregated /\ ResponsesWellFormed) =>
        \A a, b \in DOMAIN all_tracts_gdf.rows :
            all_tracts_gdf.rows[a].GEOID = all_tracts_gdf.rows[b].GEOID => a = b

\* C2: when fetched tracts share an identifier, the aggregated dataset holds
\* for that identifier the first-seen tract, with its attributes and
\* geometry, and nothing else.
C2_KeepsFirstSeen ==
    (Aggregated /\ ResponsesWellFormed) =>
        \A k \in DOMAIN FetchedStream :
            SelectSeq(all_tracts_gdf.rows,
                      LAMBDA r : r.GEOID = FetchedStream[k].GEOID)
            = <<FetchedStream[FirstIndex(FetchedStream, FetchedStream[k].GEOID)]>>

\* the end-to-end scenario: unit A returns X001 and X002, unit B returns X002
\* and X003 (X003 half outside the territory), the eligibility list is
\* X001, X002
ScenarioInput ==
    /\ script = "full"
    /\ qct_geoids = <<X001, X002>>
    /\ Len(calls) = 2
    /\ calls[1].resp = FeatureCollection(<<Tract(X001, "n1", Inside),
                                          Tract(X002, "n1", Inside)>>)
    /\ calls[2].resp = FeatureCollection(<<Tract(X002, "n1", Inside),
                                          Tract(X003, "n2", Straddling)>>)

\* C3: in the end-to-end scenario the final zone dataset, clipped to the
\* territory, has exactly the two entries X001 and X002, each once and each
\* with its full input geometry; X003 is absent.
C3_ScenarioResult ==
    (ScenarioInput /\ pc = "done") =>
        clip_to_boundary(AsLayer(output.zones), ScenarioBoundary, "zones").value.rows
        = <<Tract(X001, "n1", Inside), Tract(X002, "n1", Inside)>>

----------------------------------------------------------------------------
(* Eligibility Filter *)

FilterRan == script # "vipr" /\ pc \in {"render", "done"} /\ ~all_tracts_gdf.isNone

Ids(rows) == {rows[k].GEOID : k \in DOMAIN rows}

\* positions of the aggregated dataset whose GEOID is a member of the list
KeptPositions ==
    {a \in DOMAIN all_tracts_gdf.rows :
        all_tracts_gdf.rows[a].GEOID \in Range(qct_geoids)}

\* C4: the filter returns exactly the entries whose GEOID equals, as a
\* whole, some member of the eligibility list, in input order: the n-th kept
\* position of the input is the n-th entry of the output, and nothing else is.
C4_FilterExactMembership ==
    FilterRan =>
        /\ ~lmi_zones.isNone
        /\ Len(lmi_zones.rows) = Cardinality(KeptPositions)
        /\ \A a \in KeptPositions :
              lmi_zones.rows[Cardinality({b \in KeptPositions : b <= a})]
              = all_tracts_gdf.rows[a]

\* the filter kept a row and dropped one whose county is that of a list member
C4_Witness ==
    /\ FilterRan
    /\ KeptPositions # {}
    /\ \E a \in DOMAIN all_tracts_gdf.rows \ KeptPositions :
          \E k \in DOMAIN qct_geoids :
              CountyOf(qct_geoids[k]) = CountyOf(all_tracts_gdf.rows[a].GEOID)

\* C5: with an empty eligibility list, or a list holding only identifiers
\* absent from the dataset, the filter result is an empty dataset.
C5_NoMemberNoResult ==
    (FilterRan /\ (qct_geoids = <<>>
                   \/ Range(qct_geoids) \cap Ids(all_tracts_gdf.rows) = {})) =>
        lmi_zones = Frame(<<>>)

\* a non-empty dataset went through the filter with an empty list
C5_Witness ==
    /\ FilterRan
    /\ qct_geoids = <<>>
    /\ all_tracts_gdf.rows # <<>>
    /\ lmi_zones = Frame(<<>>)

\* C6: with a list that contains every identifier present in the dataset,
\* the filter result is the dataset itself: same entries, order, attributes
\* and geometries.
C6_AllMembersUnchanged ==
    (FilterRan /\ Ids(all_tracts_gdf.rows) \subseteq Range(qct_geoids)) =>
        lmi_zones = all_tracts_gdf

\* every identifier is listed, and the dataset's order is not the list's
C6_Witness ==
    /\ FilterRan
    /\ Ids(all_tracts_gdf.rows) \subseteq Range(qct_geoids)
    /\ Len(all_tracts_gdf.rows) >= 2
    /\ Len(qct_geoids) >= 2
    /\ all_tracts_gdf.rows[1].GEOID = qct_geoids[2]
    /\ all_tracts_gdf.rows[2].GEOID = qct_geoids[1]
    /\ qct_geoids[1] # qct_geoids[2]
    /\ lmi_zones = all_tracts_gdf

----------------------------------------------------------------------------
(* Boundary Source Client: failure policy *)

\* the service did not deliver a parsable feature collection
FailedResponse(resp) ==
    resp.raises \/ resp.status_code # 200 \/ ~resp.is_json \/ ~resp.is_fc

\* C7: a fetch never raises to its caller: on a network error or timeout,
\* a non-200 status or an unparsable payload it returns None, and on a
\* response that carries tracts it returns those tracts (no tracts when the
\* collection is empty).
C7_FetchNeverRaises ==
    \A k \in DOMAIN calls :
        /\ ~calls[k].raised
        /\ FailedResponse(calls[k].resp) => calls[k].returned = NoneFrame
        /\ Succeeded(calls[k]) => calls[k].returned = Frame(calls[k].resp.features)
        /\ calls[k].resp.features = <<>> => calls[k].returned.rows = <<>>

\* the loop went on after an unparsable payload, a non-200 status and a
\* network error
C7_Witness ==
    /\ pc = "done"
    /\ \E k \in DOMAIN calls : calls[k].resp = NonJson /\ calls[k].returned = NoneFrame
    /\ \E k \in DOMAIN calls : calls[k].resp \in {NetError, Non200, NotFeatureCollection}
                               /\ calls[k].returned = NoneFrame

\* the units main asks for, read off the configuration
RequestedUnits ==
    CASE script = "full" -> {CountyOf(qct_geoids[k]) : k \in DOMAIN qct_geoids}
      [] script = "vipr" -> DOMAIN VIPR_LMI_COUNTIES
      [] OTHER -> {DOMINION_COUNTIES_FIPS[k] :
                      k \in {n \in DOMAIN DOMINION_COUNTIES_FIPS : n <= FetchLimit}}

LoopDone == pc \in {"filter", "render", "done"} \/ (pc = "fetch" /\ i > Len(units))

\* a tract as the builder carries it after the fetch
Delivered(call, j) ==
    IF script = "vipr"
    THEN [call.resp.features[j] EXCEPT !.COUNTY_NAME = VIPR_LMI_COUNTIES[call.unit]]
    ELSE call.resp.features[j]

Eligible(tract) == script = "vipr" \/ tract.GEOID \in Range(qct_geoids)

\* the eligible tracts of the units whose fetch succeeded, by call and position
EligibleFetched ==
    {<<k, j>> \in (DOMAIN calls) \X (1..MaxFeatures) :
        /\ Succeeded(calls[k])
        /\ j \in DOMAIN calls[k].resp.features
        /\ Eligible(calls[k].resp.features[j])}

PartialFailure ==
    /\ script \in {"full", "vipr"}
    /\ LoopDone \/ pc = "crashed"
    /\ \E k \in DOMAIN calls : Succeeded(calls[k])
    /\ \E k \in DOMAIN calls : ~Succeeded(calls[k])

\* C8: when the fetch fails for some but not all requested units, the run
\* does not abort, its end has the map saved, and the final dataset holds
\* the eligible tracts of the successful units, all of them and nothing else.
C8_PartialFailureCompletes ==
    PartialFailure =>
        /\ pc # "crashed"
        /\ pc = "done" =>
              /\ output.saved
              /\ ~output.zones.isNone
              /\ Len(output.zones.rows) = Cardinality(EligibleFetched)
              /\ \A a \in DOMAIN output.zones.rows :
                    \E kj \in EligibleFetched :
                        output.zones.rows[a] = Delivered(calls[kj[1]], kj[2])
              /\ \A kj \in EligibleFetched :
                    \E a \in DOMAIN output.zones.rows :
                        output.zones.rows[a] = Delivered(calls[kj[1]], kj[2])

\* a run ended with the map saved after the first unit failed and a later
\* one delivered, or the other way round
C8_Witness ==
    /\ PartialFailure
    /\ pc = "done"
    /\ Len(calls) = 2
    /\ Succeeded(calls[1])
    /\ ~Succeeded(calls[2])
    /\ output.saved
    /\ output.zones.rows # <<>>

----------------------------------------------------------------------------
(* Observability of failed units *)

UnitMsg == IF script = "vipr" THEN "unit" ELSE "Fetching county"
SuccessMsg == IF script = "vipr" THEN "tracts" ELSE "Got"
RequestedMsg == IF script = "vipr" THEN "Fetching ALL census tracts for counties"
                ELSE "Counties to fetch"

\* the log shows the unit's line followed, before any other unit's line, by
\* a success line
LogSaysFetched(c) ==
    \E p, q \in DOMAIN log :
        /\ p < q
        /\ log[p] = Line(UnitMsg, c)
        /\ log[q].msg = SuccessMsg
        /\ \A m \in (p + 1)..q : log[m].msg # UnitMsg

\* C9: in the full-territory and VIPR builders the log tells the requested
\* from the fetched units: it states how many units are requested, names
\* every unit asked for, and marks as fetched exactly the units whose fetch
\* succeeded, so every failed unit, of any failure kind, shows in it.
C9_FailuresObservable ==
    (script \in {"full", "vipr"} /\ pc # "start") =>
        /\ \E p \in DOMAIN log :
              log[p] = Line(RequestedMsg, Cardinality(RequestedUnits))
        /\ \A k \in DOMAIN calls :
              /\ \E p \in DOMAIN log : log[p] = Line(UnitMsg, calls[k].unit)
              /\ Succeeded(calls[k]) <=> LogSaysFetched(calls[k].unit)
        /\ Cardinality({p \in DOMAIN log : log[p].msg = SuccessMsg})
           = Cardinality({k \in DOMAIN calls : Succeeded(calls[k])})

\* a full-territory run ended after one unit answered with a non-200
\* status, which the fetch itself does not print, and another delivered
C9_Witness ==
    /\ script = "full"
    /\ pc = "done"
    /\ \E k \in DOMAIN calls : calls[k].resp = Non200
    /\ \E k \in DOMAIN calls : Succeeded(calls[k])

----------------------------------------------------------------------------
(* One request per unit *)

CallsTo(c) == Cardinality({k \in DOMAIN calls : calls[k].unit = c})

AllUnits == Counties \cup Range(DOMINION_COUNTIES_FIPS)

\* C10: no unit is requested more than once in a run, and once the fetch
\* loop is over every requested unit has been requested exactly once,
\* failed or not, and no other unit at all.
C10_OneRequestPerUnit ==
    /\ \A c \in AllUnits : CallsTo(c) <= 1
    /\ LoopDone => \A c \in AllUnits :
                      CallsTo(c) = IF c \in RequestedUnits THEN 1 ELSE 0

\* a full-territory run ended whose list holds two identifiers of one county,
\* and whose request for that county failed
C10_Witness ==
    /\ script = "full"
    /\ pc = "done"
    /\ \E a, b \in DOMAIN qct_geoids :
          /\ qct_geoids[a] # qct_geoids[b]
          /\ CountyOf(qct_geoids[a]) = CountyOf(qct_geoids[b])
    /\ \E k \in DOMAIN calls : ~Succeeded(calls[k])
    /\ \A c \in RequestedUnits : CallsTo(c) = 1


----------------------------------------------------------------------------
(* Clipping pipeline: observations *)

\* the QCT layer went through clip_to_boundary as a polygon layer
ClipRan ==
    /\ script = "filter_zones"
    /\ pc \in {"map", "save", "done"}
    /\ ~utility_gdf.isNone
    /\ ~qct_gdf.isNone
    /\ ~qct_gdf.mixed

\* the ground the boundary document covers, in the boundary's coordinates
Territory == UNION {utility_gdf.rows[k].geometry : k \in DOMAIN utility_gdf.rows}

\* the clipped entries that carry an identifier, and the area they cover
EntriesOf(geoid) == SelectSeq(qct_clipped.rows, LAMBDA r : r.GEOID = geoid)

Covered(entries) == UNION {entries[k].geometry : k \in DOMAIN entries}

SameCRS == qct_gdf.crs = utility_gdf.crs

\* the boundary's features cover separate ground: no two share area
DisjointFeatures ==
    \A m, n \in DOMAIN utility_gdf.rows :
        m # n => utility_gdf.rows[m].geometry \cap utility_gdf.rows[n].geometry = {}

\* every input geometry lies inside the ground the boundary covers
AllContained ==
    \A k \in DOMAIN qct_gdf.rows : qct_gdf.rows[k].geometry \subseteq Territory

\* C12: when the service boundary fully contains every input geometry,
\* clipping is a no-op: the output has the same entries as the input and
\* each output geometry equals its input geometry.
C12_ContainedIsNoOp ==
    (ClipRan /\ SameCRS /\ DisjointFeatures /\ AllContained) => qct_clipped = qct_gdf
\* no input geometry shares area with the boundary
NoOverlap ==
    \A k \in DOMAIN qct_gdf.rows : qct_gdf.rows[k].geometry \cap Territory = {}

\* C13: clipping a dataset against a boundary that overlaps none of its
\* geometries returns an empty dataset (present, zero entries): not None,
\* and no exception is raised or reported.
C13_NoOverlapGivesEmpty ==
    (ClipRan /\ NoOverlap) =>
        /\ ~qct_clipped.isNone
        /\ qct_clipped.rows = <<>>
        /\ \A k \in DOMAIN log :
              log[k] # NamedLine("ERROR clipping", "QCT Zones", <<>>)

\* a layer with tracts, none of them overlapping the boundary, was clipped
C13_Witness ==
    /\ ClipRan
    /\ NoOverlap
    /\ qct_gdf.rows # <<>>
    /\ qct_clipped = [qct_gdf EXCEPT !.rows = <<>>]
\* C14: when the dataset's CRS differs from the boundary's CRS at the
\* moment clipping is requested, the clipper reports a precondition failure
\* before any intersection: it never intersects on mismatched CRSs and
\* never returns a clipped result.
C14_MismatchIsRefused ==
    (ClipRan /\ qct_gdf.rows # <<>> /\ qct_gdf.crs # utility_gdf.crs) =>
        /\ qct_clipped.isNone
        /\ \E k \in DOMAIN log :
              log[k] = NamedLine("ERROR clipping", "QCT Zones", <<>>)

\* C15: whenever clip_to_boundary is about to be called with a dataset
\* that is not None, the dataset and the boundary carry the same declared
\* CRS, whatever CRS the input files declare or leave undeclared.
C15_SameCrsAtClip ==
    (script = "filter_zones" /\ pc = "clip") =>
        /\ ~oz_gdf.isNone => oz_gdf.crs = utility_gdf.crs
        /\ ~qct_gdf.isNone => qct_gdf.crs = utility_gdf.crs

\* no identifier occurs twice among the rows
UniqueIds(rows) ==
    \A j, k \in DOMAIN rows : rows[j].GEOID = rows[k].GEOID => j = k

\* C16: after clipping no two output entries share a tract identifier:
\* each input tract yields at most one output entry, for every boundary
\* document, one made of several features included.
C16_OneEntryPerTract ==
    (ClipRan /\ SameCRS /\ DisjointFeatures /\ UniqueIds(qct_gdf.rows)) =>
        UniqueIds(qct_clipped.rows)
\* Step 2 of the pipeline has run
Aligned ==
    /\ script = "filter_zones"
    /\ pc \in {"clip", "map", "save", "done"}
    /\ ~utility_gdf.isNone

\* the CRS a layer's coordinates are read in: its declared one, EPSG:4326
\* when it declares none
AssumedCRS(gdf) == IF gdf.crs = NoCRS THEN "EPSG:4326" ELSE gdf.crs

\* out is the layer in, declared in CRS t and with every geometry
\* re-expressed from in's assumed CRS to t, all else equal
NormalizedFrom(in, out, t) ==
    /\ ~out.isNone
    /\ out.crs = t
    /\ out = [in EXCEPT !.crs = t,
                        !.rows = [k \in DOMAIN in.rows |->
                                    [in.rows[k] EXCEPT !.geometry =
                                        Transform(@, AssumedCRS(in), t)]]]

\* C17: for every collection that is not None and every target CRS the
\* normalizer returns a collection whose declared CRS is the target; a
\* collection with no CRS is taken to be EPSG:4326 and reprojected from
\* there when the target differs.
C17_NormalizedToTarget ==
    Aligned =>
        /\ files.oz.state = "ok" =>
              NormalizedFrom(files.oz.layer, oz_gdf, target_crs(utility_gdf))
        /\ files.qct.state = "ok" =>
              NormalizedFrom(files.qct.layer, qct_gdf, target_crs(utility_gdf))
        /\ files.streets.state = "ok" =>
              NormalizedFrom(files.streets.layer, streets_gdf, target_crs(utility_gdf))

\* a QCT layer without CRS met a boundary in EPSG:3857: it was declared
\* EPSG:4326 and then reprojected
C17_Witness ==
    /\ Aligned
    /\ files.qct.state = "ok"
    /\ files.qct.layer.crs = NoCRS
    /\ files.qct.layer.rows # <<>>
    /\ utility_gdf.crs = "EPSG:3857"
    /\ qct_gdf.crs = "EPSG:3857"
    /\ qct_gdf.rows # files.qct.layer.rows
    /\ \E j, k \in DOMAIN log :
          /\ j < k
          /\ log[j] = NamedLine("WARNING: no CRS, assuming EPSG:4326", "QCT Zones", <<>>)
          /\ log[k] = NamedLine("Reprojecting", "QCT Zones", <<>>)

\* a second pass of the normalizer changes nothing and prints nothing
Renormalized(gdf, name) ==
    ensure_same_crs(gdf, target_crs(utility_gdf), name) = [value |-> gdf, out |-> <<>>]

\* a second pass of the sanitizer changes nothing
Reprepared(gdf) == prepare_for_json(gdf) = [self |-> gdf, ret |-> gdf]

\* C18: normalization is idempotent: ensure_same_crs with the same target
\* and prepare_for_json, applied to a collection that already went through
\* them, return a collection equal to their input, with no reprojection
\* and no conversion performed.
C18_Idempotent ==
    /\ Aligned =>
          /\ Renormalized(oz_gdf, "Opportunity Zones")
          /\ Renormalized(qct_gdf, "QCT Zones")
          /\ Renormalized(streets_gdf, "Streets")
    /\ (script = "filter_zones" /\ pc \in {"save", "done"}) =>
          /\ Reprepared(map_layers.utility)
          /\ Reprepared(map_layers.oz)
          /\ Reprepared(map_layers.qct)
          /\ Reprepared(map_layers.streets)

\* the first pass reprojected the QCT layer and converted its datetime
\* column, and the result is on the map
C18_Witness ==
    /\ script = "filter_zones"
    /\ pc \in {"save", "done"}
    /\ files.qct.state = "ok"
    /\ files.qct.layer.dtype = "datetime64"
    /\ \E k \in DOMAIN log : log[k] = NamedLine("Reprojecting", "QCT Zones", <<>>)
    /\ Shown(map_layers.qct)
    /\ map_layers.qct.dtype = "object"
    /\ qct_gdf.rows # files.qct.layer.rows
\* out has in's CRS, rows, identifiers and geometries, in the same order
SameFrame(in, out) ==
    /\ out.isNone = in.isNone
    /\ out.crs = in.crs
    /\ out.mixed = in.mixed
    /\ Len(out.rows) = Len(in.rows)
    /\ \A k \in DOMAIN in.rows :
          out.rows[k] = [in.rows[k] EXCEPT !.updated = out.rows[k].updated]

\* every value json.dumps rejects became its string, every other value
\* is as it was
AllSanitized(in, out) ==
    \A k \in DOMAIN in.rows :
        /\ Serializable(out.rows[k].updated)
        /\ out.rows[k].updated.text = in.rows[k].updated.text
        /\ Serializable(in.rows[k].updated) =>
              out.rows[k].updated = in.rows[k].updated

\* the values of a datetime column became their strings, the values of
\* any other column are as they were
DatetimesSanitized(in, out) ==
    /\ out.dtype = "object"
    /\ \A k \in DOMAIN in.rows :
          out.rows[k].updated = IF in.dtype = "datetime64"
                                THEN Str(in.rows[k].updated)
                                ELSE in.rows[k].updated

\* create_map prepares its layers in this step
Preparing == script = "filter_zones" /\ pc = "map"

\* the arguments of prepare_for_json are after the call what they were
InputsKept ==
    <<utility_gdf, oz_clipped, qct_clipped, streets_gdf>>'
    = <<utility_gdf, oz_clipped, qct_clipped, streets_gdf>>

\* C19 as stated: sanitization converts every attribute value that is not
\* JSON-serializable to its string and changes nothing else (geometry,
\* identifiers, row count, serializable attributes); the input collection
\* is not modified.
C19_SanitizesEveryValue ==
    [][Preparing =>
         /\ InputsKept
         /\ map_layers'.utility = utility_gdf
         /\ \A l \in {<<oz_clipped, map_layers'.oz>>, <<qct_clipped, map_layers'.qct>>,
                       <<streets_gdf, map_layers'.streets>>} :
               SameFrame(l[1], l[2]) /\ AllSanitized(l[1], l[2])]_vars

\* C19 amended: sanitization converts the values of every attribute
\* column of datetime dtype to their strings and changes nothing else
\* (geometry, identifiers, row count, every other column); the input
\* collection is not modified.
C19_SanitizesDatetimeColumns ==
    [][Preparing =>
         /\ InputsKept
         /\ map_layers'.utility = utility_gdf
         /\ \A l \in {<<oz_clipped, map_layers'.oz>>, <<qct_clipped, map_layers'.qct>>,
                       <<streets_gdf, map_layers'.streets>>} :
               SameFrame(l[1], l[2]) /\ (~l[1].isNone => DatetimesSanitized(l[1], l[2]))]_vars

\* a clipped QCT layer with a datetime column was prepared: the prepared
\* layer holds strings, the clipped layer still holds its Timestamps
C19_Witness ==
    /\ script = "filter_zones"
    /\ pc \in {"save", "done"}
    /\ qct_clipped.dtype = "datetime64"
    /\ qct_clipped.rows # <<>>
    /\ \A k \in DOMAIN qct_clipped.rows :
          /\ qct_clipped.rows[k].updated.kind = "Timestamp"
          /\ map_layers.qct.rows[k].updated = Str(qct_clipped.rows[k].updated)
----------------------------------------------------------------------------
(* Builders: empty results *)

\* a finished run of the full or VIPR builder that asked for units and
\* got no eligible tract: nothing was fetched, or nothing fetched is on
\* the eligibility list
EmptyResultRun ==
    /\ script \in {"full", "vipr"}
    /\ pc = "done"
    /\ calls # <<>>
    /\ EligibleFetched = {}

\* C20: an empty result is not an error exit: when no unit could be
\* fetched, or no fetched tract is eligible, the run still reaches its
\* normal end (output and summary written) and the log marks the outcome
\* as an empty result, not as an error.
C20_EmptyResultIsNotError ==
    EmptyResultRun =>
        /\ output.saved
        /\ \E k \in DOMAIN log : log[k] = Line("LMI Zones", 0)
        /\ \A k \in DOMAIN log :
              log[k].msg \notin {"ERROR: Could not fetch any tract data",
                                 "ERROR: No tract data fetched"}
----------------------------------------------------------------------------
(* Clipping pipeline: summary and control flow *)

\* the pipeline ran to its summary
Summarized == script = "filter_zones" /\ pc = "done" /\ output.saved

\* the summary line a QCT clip that succeeded with zero features gets
ZeroFeaturesLine == NamedLine("features clipped", "QCT Zones", <<0>>)

\* the QCT clip failed: the layer could not be loaded, or the overlay
\* raised and clip_to_boundary returned None
ClipFailed == qct_clipped.isNone

\* C21: in the summary a clip that failed (clip_to_boundary returned None
\* after an exception, or the zone layer could not be loaded) is
\* distinguishable from a clip that succeeded with zero features: the
\* failed clip never gets the summary line of the zero-feature clip.
C21_FailedClipDistinct ==
    (Summarized /\ ClipFailed) =>
        \A k \in DOMAIN log : log[k] # ZeroFeaturesLine
\* the run is over: main returned, or an exception nothing caught ended it
Ended == script = "filter_zones" /\ pc \in {"done", "crashed"}

\* the service boundary was loaded
BoundaryPresent == files.utility.state = "ok"

\* lines only Steps 2 to 5 print
LaterStepLines ==
    {"WARNING: no CRS, assuming EPSG:4326", "Reprojecting", "Clipped",
     "ERROR clipping", "Added layer", "SUCCESS: Map saved", "features clipped"}

\* C22: the only condition under which a run stops before producing its
\* output is a missing service boundary: with the boundary present the run
\* ends with the map saved, whatever zone layers are missing or
\* unreadable, whatever clips fail or come out empty; with the boundary
\* absent the run stops before any normalization, clip or save.
C22_OnlyMissingBoundaryStops ==
    Ended =>
        /\ BoundaryPresent => (pc = "done" /\ output.saved)
        /\ ~BoundaryPresent =>
              /\ ~output.saved
              /\ \A k \in DOMAIN log : log[k].msg \notin LaterStepLines
              /\ qct_gdf = files.qct.layer
              /\ qct_clipped = NoneLayer
              /\ map_layers = NoMap
----------------------------------------------------------------------------
(* Builders: log of the aggregation, order of the merge *)

\* the line a builder prints with the size of the concatenated frame
TotalLine(n) ==
    Line(IF script = "vipr" THEN "TOTAL LMI ZONES" ELSE "Total tracts fetched", n)

\* a line with the number of distinct identifiers among the fetched tracts
UniqueLine(n) == Line("Unique tracts", n)

\* the full or the VIPR builder has concatenated its per-unit frames
Merged ==
    /\ script \in {"full", "vipr"}
    /\ pc \in {"filter", "render", "done"}
    /\ ~all_tracts_gdf.isNone

\* C23: every run that aggregates tracts writes to its log both the total
\* number of tracts fetched and the number of unique tract identifiers
\* among them.
C23_TotalAndUniqueLogged ==
    Merged =>
        /\ \E k \in DOMAIN log : log[k] = TotalLine(Len(all_tracts_gdf.rows))
        /\ \E k \in DOMAIN log :
              log[k] = UniqueLine(Cardinality(Ids(all_tracts_gdf.rows)))
\* the service territory the zone dataset is meant for
ServiceTerritory ==
    UNION {ScenarioBoundary.rows[k].geometry : k \in DOMAIN ScenarioBoundary.rows}

\* C24: every entry of the final zone dataset handed to the renderer has
\* passed through the eligibility filter and then the boundary clipper:
\* its identifier is in the eligibility list and its geometry lies within
\* the service boundary.
C24_FilteredThenClipped ==
    (script = "full" /\ pc = "done" /\ output.saved) =>
        \A k \in DOMAIN output.zones.rows :
            /\ output.zones.rows[k].GEOID \in Range(qct_geoids)
            /\ output.zones.rows[k].geometry \subseteq ServiceTerritory

Ascending(seq) == \A j, k \in DOMAIN seq : j < k => seq[j] < seq[k]

\* what the unit of a call adds to the merge
Contribution(call) ==
    IF call.returned.isNone \/ (script # "canvassing" /\ call.returned.rows = <<>>)
    THEN <<>>
    ELSE [j \in DOMAIN call.returned.rows |-> Delivered(call, j)]

\* requests are made in the order of the unit list, and the aggregated
\* dataset is the units' contributions in that order
MergedInUnitOrder ==
    /\ \A k \in DOMAIN calls : calls[k].unit = units[k]
    /\ Aggregated =>
          all_tracts_gdf.rows = Concat([k \in DOMAIN calls |-> Contribution(calls[k])])

\* C25 as stated: units are fetched and merged in ascending order of unit
\* identifier, so the aggregated dataset depends only on the set of units
\* and on each unit's fetch result, not on the order in which units or
\* eligibility identifiers are listed.
C25_AscendingEverywhere ==
    pc # "start" =>
        /\ Ascending(units)
        /\ Range(units) = RequestedUnits
        /\ MergedInUnitOrder

\* C25 amended: in the full-territory and VIPR builders units are fetched
\* and merged in ascending order of unit identifier, whatever the order of
\* the eligibility list or the county table; the canvassing builder
\* fetches and merges its units in the order its list names them.
C25_AscendingInFullAndVipr ==
    pc # "start" =>
        /\ script \in {"full", "vipr"} => Ascending(units)
        /\ script = "canvassing" =>
              \A k \in DOMAIN units : units[k] = DOMINION_COUNTIES_FIPS[k]
        /\ Range(units) = RequestedUnits
        /\ MergedInUnitOrder

\* the eligibility list names county 2 before county 1, both units
\* delivered tracts, and the merge holds county 1's tracts first
C25_Witness ==
    /\ script = "full"
    /\ Aggregated
    /\ Len(qct_geoids) = 2
    /\ CountyOf(qct_geoids[1]) > CountyOf(qct_geoids[2])
    /\ Len(all_tracts) = 2
    /\ units = <<CountyOf(qct_geoids[2]), CountyOf(qct_geoids[1])>>
    /\ CountyOf(all_tracts_gdf.rows[1].GEOID) <= CountyOf(all_tracts_gdf.rows[Len(all_tracts_gdf.rows)].GEOID)
\* C26: at most one unit fetch is in progress at any time, and the merge
\* of the per-unit collections starts only after the fetch of every
\* requested unit has returned, failed or not; nothing is filtered or
\* written before that.
C26_MergeAfterAllFetches ==
    /\ pc = "fetch" => Len(calls) = i - 1
    /\ \A k \in DOMAIN calls : calls[k].unit = units[k]
    /\ (pc \in {"start", "fetch"} /\ Len(calls) < Len(units)) =>
          /\ all_tracts_gdf.isNone
          /\ lmi_zones.isNone
          /\ ~output.saved
    /\ (~all_tracts_gdf.isNone \/ ~lmi_zones.isNone \/ output.saved) =>
          /\ Len(calls) = Len(units)
          /\ \A c \in RequestedUnits : CallsTo(c) = 1

\* two units were requested, one failed and one delivered, and the merge
\* was made after both
C26_Witness ==
    /\ script \in {"full", "vipr"}
    /\ Aggregated
    /\ Len(units) = 2
    /\ Len(calls) = 2
    /\ \E j, k \in DOMAIN calls : ~Succeeded(calls[j]) /\ Succeeded(calls[k])

----------------------------------------------------------------------------
(* Clipping pipeline: what the clip leaves alone *)

\* C27: clipping replaces only geometry: every output entry carries the
\* identifier and the other attribute values of the input tract it was
\* derived from, unchanged, and no output entry has an identifier that was
\* not in the input.
C27_ClipKeepsAttributes ==
    ClipRan =>
        /\ qct_clipped = [qct_gdf EXCEPT !.rows = qct_clipped.rows]
        /\ \A j \in DOMAIN qct_clipped.rows :
              /\ qct_clipped.rows[j].GEOID \in Ids(qct_gdf.rows)
              /\ \E k \in DOMAIN qct_gdf.rows :
                    /\ qct_clipped.rows[j].GEOID = qct_gdf.rows[k].GEOID
                    /\ qct_clipped.rows[j].updated = qct_gdf.rows[k].updated
                    /\ qct_clipped.rows[j].geometry \subseteq qct_gdf.rows[k].geometry

\* two tracts with different attribute values were clipped, one of them
\* truncated, and both are in the output
C27_Witness ==
    /\ ClipRan
    /\ Len(qct_clipped.rows) >= 2
    /\ \E j, k \in DOMAIN qct_clipped.rows :
          /\ qct_clipped.rows[j].GEOID # qct_clipped.rows[k].GEOID
          /\ qct_clipped.rows[j].updated # qct_clipped.rows[k].updated
    /\ \E j \in DOMAIN qct_clipped.rows : \E k \in DOMAIN qct_gdf.rows :
          /\ qct_clipped.rows[j].GEOID = qct_gdf.rows[k].GEOID
          /\ qct_clipped.rows[j].geometry # qct_gdf.rows[k].geometry
----------------------------------------------------------------------------
(* Canvassing builder: the slice of the unit list *)

\* the configured units beyond the slice
LaterUnits ==
    {DOMINION_COUNTIES_FIPS[k] :
        k \in {n \in DOMAIN DOMINION_COUNTIES_FIPS : n > FetchLimit}}

\* C28: in the canvassing builder only the first five entries of the
\* configured unit list are ever requested, in list order; a tract of any
\* later configured unit never appears in the LMI zone set, even when its
\* identifier is in the eligibility list.
C28_OnlyFirstUnitsRequested ==
    script = "canvassing" =>
        /\ Len(calls) <= FetchLimit
        /\ \A k \in DOMAIN calls : calls[k].unit = DOMINION_COUNTIES_FIPS[k]
        /\ \A k \in DOMAIN lmi_zones.rows :
              CountyOf(lmi_zones.rows[k].GEOID) \notin LaterUnits
        /\ output.saved =>
              \A k \in DOMAIN output.zones.rows :
                  CountyOf(output.zones.rows[k].GEOID) \notin LaterUnits

\* the eligibility list names a tract of a later unit, every unit of the
\* slice was fetched and delivered, and the map was written with zones
C28_Witness ==
    /\ script = "canvassing"
    /\ pc = "done"
    /\ output.saved
    /\ \E k \in DOMAIN qct_geoids : CountyOf(qct_geoids[k]) \in LaterUnits
    /\ Len(calls) = FetchLimit
    /\ \A k \in DOMAIN calls : Succeeded(calls[k])
    /\ Len(output.zones.rows) > 0
----------------------------------------------------------------------------
(* Full and VIPR builders: an empty feature list *)

\* the service answered 200 with a feature collection that lists no tract
EmptyAnswer(call) == call.resp = FeatureCollection(<<>>)

\* C29: in the full and VIPR builders a 200 response with an empty
\* feature list is treated exactly like a failed fetch: the fetch returns
\* None, the unit contributes nothing, and every per-unit collection that
\* reaches the merge is non-empty.
C29_EmptyAnswerIsFailure ==
    script \in {"full", "vipr"} =>
        /\ \A k \in DOMAIN calls :
              EmptyAnswer(calls[k]) =>
                  /\ ~calls[k].raised
                  /\ calls[k].returned = NoneFrame
                  /\ fetch_tracts_for_county(calls[k].resp)
                       = fetch_tracts_for_county(Non200)
                  /\ fetch_all_tracts_for_county(calls[k].resp)
                       = fetch_all_tracts_for_county(Non200)
                  /\ full_iteration_lines(calls[k].unit, fetch_tracts_for_county(calls[k].resp))
                       = full_iteration_lines(calls[k].unit, fetch_tracts_for_county(Non200))
                  /\ vipr_iteration_lines(calls[k].unit, fetch_all_tracts_for_county(calls[k].resp))
                       = vipr_iteration_lines(calls[k].unit, fetch_all_tracts_for_county(Non200))
        /\ \A k \in DOMAIN all_tracts : all_tracts[k] # <<>>
        /\ pc # "crashed" =>
              Len(all_tracts) = Cardinality({k \in DOMAIN calls : Succeeded(calls[k])})

\* one unit answered with an empty feature list, another delivered tracts,
\* and the merge was made of the one collection
C29_Witness ==
    /\ script \in {"full", "vipr"}
    /\ Aggregated
    /\ \E k \in DOMAIN calls : EmptyAnswer(calls[k])
    /\ \E k \in DOMAIN calls : Succeeded(calls[k])
    /\ Len(all_tracts) = 1
----------------------------------------------------------------------------
(* Regional split: the regions partition the county table *)

RegionCounties(key) == Range(REGIONS[key].counties)

\* no county code is listed by two regions
RegionsDisjoint ==
    \A a, b \in Range(REGION_KEYS) :
        a # b => RegionCounties(a) \cap RegionCounties(b) = {}

\* every county code of the VIPR builder's table is listed by a region
RegionsCoverTable ==
    VIPR_COUNTY_CODES \subseteq UNION {RegionCounties(key) : key \in Range(REGION_KEYS)}

\* the regional maps that show a zone
MapsShowing(zone) ==
    {key \in Range(REGION_KEYS) : zone \in Range(regional_maps[key])}

\* C30: the regional split is a partition of the complete zone dataset:
\* the county lists of the six regions are pairwise disjoint and together
\* contain every county code of the VIPR builder's county table, so every
\* zone the VIPR builder wrote appears in exactly one regional map.
C30_RegionsPartitionZones ==
    /\ RegionsDisjoint
    /\ RegionsCoverTable
    /\ script = "regional" =>
          /\ \A key \in Range(REGION_KEYS) :
                Range(regional_maps[key]) \subseteq Range(output.zones.rows)
          /\ \A k \in DOMAIN output.zones.rows :
                Cardinality(MapsShowing(output.zones.rows[k])) <= 1
          /\ pc = "done" =>
                \A k \in DOMAIN output.zones.rows :
                    Cardinality(MapsShowing(output.zones.rows[k])) = 1

\* the split is finished, the file held zones of two regions, and each
\* region's map was saved
C30_Witness ==
    /\ script = "regional"
    /\ pc = "done"
    /\ Len(output.zones.rows) = 2
    /\ Cardinality({key \in Range(REGION_KEYS) : regional_maps[key] # <<>>}) = 2
====
